---------------------------- MODULE Spec2Model ----------------------------
(***************************************************************************)
(* BianchiPowerAlgorithm (nbodykit/plugins/algorithms/BianchiPower.py):    *)
(* every rank of one communicator executes run() and then                  *)
(* save(output, result).                                                   *)
(*                                                                         *)
(* Wavenumbers are exact rationals: the integer x stands for x*pi/KDen,    *)
(* where KDen is twice the least common multiple of the box edge lengths   *)
(* in use, so that 2*pi/L, pi*Nmesh/L and dk/2 are all integers.           *)
(***************************************************************************)
EXTENDS Integers, Sequences, FiniteSets, TLC

\* ------------------------------------------------------------- bounds
MaxRanks == 3
MaxNmesh == 3
MaxPoles == 2
MaxFields == 4

\* ------------------------------------------------------------ helpers
\* None is the empty tuple and a present value x is <<x>>
None == <<>>
Some(x) == <<x>>
Get(o) == o[1]

Min(a, b) == IF a <= b THEN a ELSE b
Max(a, b) == IF a >= b THEN a ELSE b

RECURSIVE Gcd(_, _)
Gcd(a, b) == IF b = 0 THEN a ELSE Gcd(b, a % b)

Lcm(a, b) == (a * b) \div Gcd(a, b)

IsPrefix(s, t) == Len(s) <= Len(t) /\ SubSeq(t, 1, Len(s)) = s

\* box edge lengths the catalogs of the model come with
BoxLengths == {800, 1000, 1200}

KDen == 2 * Lcm(800, Lcm(1000, 1200))

\* ---------------------------------------------------- numpy operators
\* ceil(a / b) for b # 0
CeilDiv(a, b) ==
    LET n == IF b < 0 THEN -a ELSE a
        d == IF b < 0 THEN -b ELSE b
    IN  -((-n) \div d)

\* numpy.arange(start, stop, step), step # 0: ceil((stop - start) / step)
\* values start + i*step, none when that count is not positive
arange(start, stop, step) ==
    LET n == Max(0, CeilDiv(stop - start, step))
    IN  [i \in 1..n |-> start + (i - 1) * step]

\* BoxSize.min(), BoxSize.max()
BoxMin(B) == Min(B[1], Min(B[2], B[3]))
BoxMax(B) == Max(B[1], Max(B[2], B[3]))

\* 2*numpy.pi / L and numpy.pi*Nmesh / L, in units of pi/KDen
TwoPiOver(L) == (2 * KDen) \div L
Nyquist(N, B) == (N * KDen) \div BoxMax(B)

\* dictionaries are functions on their key set
DictUpdate(m, u) ==
    [key \in (DOMAIN m) \cup (DOMAIN u) |-> IF key \in DOMAIN u THEN u[key] ELSE m[key]]

\* ------------------------------------------------- argument parsing
Digits == <<"0", "1", "2", "3", "4", "5", "6", "7", "8", "9">>

\* int(s) of a one-character token: Some(value), or None where int raises
int(s) ==
    IF \E d \in 1..Len(Digits) : Digits[d] = s
    THEN Some((CHOOSE d \in 1..Len(Digits) : Digits[d] = s) - 1)
    ELSE None

\* type=lambda l: [int(s) for s in l]: Some(the list), or None where it raises
PolesType(l) ==
    IF \E i \in 1..Len(l) : int(l[i]) = None
    THEN None
    ELSE Some([i \in 1..Len(l) |-> Get(int(l[i]))])

\* '%d' % l
RECURSIVE FormatD(_)
FormatD(l) ==
    IF l < 0 THEN "-" \o FormatD(-l)
    ELSE IF l < 10 THEN Digits[l + 1]
    ELSE FormatD(l \div 10) \o Digits[(l % 10) + 1]

\* logger.info reaches the handlers when the logger's level allows INFO
InfoEnabled(level) == level = "DEBUG"

\* ---------------------------------------------------------- state
VARIABLES
    comm_size,    \* number of ranks of self.comm
    BoxSize,      \* self.input.BoxSize
    Nmesh,        \* self.Nmesh
    dk,           \* self.dk (None when --dk was not given)
    kmin,         \* self.kmin
    rawpoles,     \* the tokens given for `poles`
    poles,        \* self.poles
    log_level,    \* self.log_level
    est_poles,    \* the fields compute_bianchi_poles returns for this catalog
    est_meta,     \* the metadata compute_bianchi_poles returns
    pc,           \* pc[r]: where rank r is
    pm,           \* pm[r]: the ParticleMesh of rank r
    fields,       \* fields[r]: run()'s local `poles`
    meta,         \* meta[r]: run()'s local `meta`
    kedges,       \* kedges[r]
    poles_final,  \* poles_final[r]
    result,       \* result[r]: run()'s local `result`
    ret,          \* ret[r]: what run() returned, the `result` save() is given
    loop,         \* loop[r]: the place of `for p in poles` in its list
    log,          \* log[r]: the records rank r's logger emitted
    storage,      \* the MeasurementStorage.write calls, in order
    colls,        \* colls[r]: the collective calls rank r has entered
    thrown,       \* thrown[r]: the call that raised on rank r
    trace         \* trace[r]: the steps rank r has taken

inputs == <<comm_size, BoxSize, Nmesh, dk, kmin, rawpoles, poles, log_level,
            est_poles, est_meta>>
locals == <<pm, fields, meta, kedges, poles_final, result, ret, loop>>
vars == <<inputs, pc, locals, log, storage, colls, thrown, trace>>

Ranks == 0..(comm_size - 1)

\* ------------------------------------------------------ collaborators
\* an array: what it holds, the field it was computed from, its shape
Array(name, of, shape) == [name |-> name, of |-> of, shape |-> shape]

\* numpy.squeeze: the axes of length one are dropped
squeeze(a) == [a EXCEPT !.shape = SelectSeq(@, LAMBDA d : d # 1)]

\* numpy.stack: one row per array of the list, in the list's order
stack(l) == l

\* measurestats.project_to_basis(comm, k3d, p, [kedges, muedges]):
\* (k, mu, power, modes) on Len(kedges)-1 k-bins and the one mu-bin
project_to_basis(p, edges) ==
    LET shape == <<Max(Len(edges) - 1, 0), 1>>
    IN  <<Array("k", None, shape), Array("mu", None, shape),
          Array("power", Some(p), shape), Array("modes", None, shape)>>

\* measurestats.compute_bianchi_poles(input, pm, comm, log_level): the fields
\* and the metadata of the catalog; `self.poles` is not among its arguments
compute_bianchi_poles(input_poles, input_meta, mesh) == <<input_poles, input_meta>>

\* ParticleMesh(BoxSize, Nmesh, dtype='f4', comm)
ParticleMesh(B, N) == [BoxSize |-> B, Nmesh |-> N]

\* -------------------------------------------------------- run() pieces
\* a faulty IsMaster, which C1 rules out: every rank takes itself for the master
IsMasterAny(r) == TRUE

\* self.comm.rank == 0
IsMaster(r) == r = 0

\* dk = 2*numpy.pi/pm.BoxSize.min() if self.dk is None else self.dk
BinWidth(d, mesh) == IF d = None THEN TwoPiOver(BoxMin(mesh.BoxSize)) ELSE Get(d)

\* the stop of the arange, numpy.pi*pm.Nmesh/pm.BoxSize.max() + dk/2
KStop(width, mesh) == Nyquist(mesh.Nmesh, mesh.BoxSize) + width \div 2

\* kedges = numpy.arange(self.kmin, ... + dk/2, dk)
KEdges(d, k0, mesh) == arange(k0, KStop(BinWidth(d, mesh), mesh), BinWidth(d, mesh))

\* a faulty MetaUpdate, which C7 rules out: the entries the estimator's
\* metadata already holds are kept
MetaUpdateKeep(m, mesh) ==
    LET B == mesh.BoxSize
        u == [key \in {"Lx", "Ly", "Lz", "volume"} |->
                 CASE key = "Lx" -> B[1]
                   [] key = "Ly" -> B[2]
                   [] key = "Lz" -> B[3]
                   [] OTHER -> B[1] * B[2] * B[3]]
    IN  DictUpdate(u, m)

\* meta.update({'Lx':Lx, 'Ly':Ly, 'Lz':Lz, 'volume':Lx*Ly*Lz})
MetaUpdate(m, mesh) ==
    LET Lx == mesh.BoxSize[1]
        Ly == mesh.BoxSize[2]
        Lz == mesh.BoxSize[3]
    IN  DictUpdate(m, [key \in {"Lx", "Ly", "Lz", "volume"} |->
            CASE key = "Lx" -> Lx
              [] key = "Ly" -> Ly
              [] key = "Lz" -> Lz
              [] OTHER -> Lx * Ly * Lz])

\* a faulty LoopFields, which C6 rules out: the ranks other than 0 project the
\* first field only
LoopFieldsFirst(r) == IF r = 0 THEN fields[r] ELSE SubSeq(fields[r], 1, Min(1, Len(fields[r])))

\* the fields the loop `for p in poles` of rank r goes through
LoopFields(r) == fields[r]

\* a faulty NextField, which C9 rules out: the loop leaves out every other field
NextFieldSkip(i) == i + 2

\* the loop goes from one field to the next
NextField(i) == i + 1

\* a faulty OnException, which C5 rules out: a projection that raises is left
\* out and the loop goes on
OnExceptionSkip(r, call) ==
    /\ pc' = [pc EXCEPT ![r] = IF call = "project_to_basis" THEN "project" ELSE "raised"]
    /\ loop' = [loop EXCEPT ![r] = IF call = "project_to_basis" THEN @ + 1 ELSE @]
    /\ UNCHANGED <<pm, fields, meta, kedges, poles_final, result, ret, log, storage,
                   colls, trace>>

\* run() holds no try/except: an exception of `call` leaves run() at once
OnException(r, call) ==
    /\ pc' = [pc EXCEPT ![r] = "raised"]
    /\ UNCHANGED <<locals, log, storage, colls, trace>>

\* ------------------------------------------------------ save() pieces
\* cols = ['k'] + ['power_%d' %l for l in [0, 2, 4]] + ['modes']
PowerCols(ls) == [i \in 1..Len(ls) |-> "power_" \o FormatD(ls[i])]

\* a faulty SaveCols, which C4 rules out: one power column per requested order
SaveColsRequested == <<"k">> \o PowerCols(Get(poles)) \o <<"modes">>

SaveCols == <<"k">> \o PowerCols(<<0, 2, 4>>) \o <<"modes">>

\* a faulty PoleResult, which C10 rules out: as many power columns as there
\* are power column names
PoleResultThree(k, rows, N) == <<k>> \o SubSeq(rows, 1, Min(3, Len(rows))) \o <<N>>

\* pole_result = [k] + [pole for pole in poles] + [N]
PoleResult(k, rows, N) == <<k>> \o rows \o <<N>>

\* a rank is in a collective until every rank has entered the same one
CollectiveReady(r) ==
    \A q \in Ranks :
        /\ Len(colls[q]) >= Len(colls[r])
        /\ colls[q][Len(colls[r])] = colls[r][Len(colls[r])]

Step(name, i) == [step |-> name, i |-> i]

\* ---------------------------------------------------------- Init
\* the state once every rank has parsed the command line; a rank whose
\* `poles` tokens do not parse never gets to run()
InitWith(sizes, boxes, meshes, widths, starts, tokens, levels, estimates, metas) ==
    /\ comm_size \in sizes
    /\ BoxSize \in boxes
    /\ Nmesh \in meshes
    /\ dk \in widths
    /\ kmin \in starts
    /\ rawpoles \in tokens
    /\ poles = PolesType(rawpoles)
    /\ log_level \in levels
    /\ est_poles \in estimates
    /\ est_meta \in metas
    /\ pc = [r \in Ranks |-> IF PolesType(rawpoles) = None THEN "argerror" ELSE "start"]
    /\ pm = [r \in Ranks |-> None]
    /\ fields = [r \in Ranks |-> <<>>]
    /\ meta = [r \in Ranks |-> <<>>]
    /\ kedges = [r \in Ranks |-> <<>>]
    /\ poles_final = [r \in Ranks |-> <<>>]
    /\ result = [r \in Ranks |-> None]
    /\ ret = [r \in Ranks |-> None]
    /\ loop = [r \in Ranks |-> 0]
    /\ log = [r \in Ranks |-> <<>>]
    /\ storage = <<>>
    /\ colls = [r \in Ranks |-> <<>>]
    /\ thrown = [r \in Ranks |-> "None"]
    /\ trace = [r \in Ranks |-> <<>>]

\* ---------------------------------------------------------- run()
\* lines 50-54: set the level, log on the master, enter ParticleMesh(...)
RunBegin(r) ==
    /\ pc[r] = "start"
    /\ log' = [log EXCEPT ![r] =
                 IF IsMaster(r) /\ InfoEnabled(log_level)
                 THEN Append(@, "importing done") ELSE @]
    /\ colls' = [colls EXCEPT ![r] = Append(@, "ParticleMesh")]
    /\ trace' = [trace EXCEPT ![r] = Append(@, Step("ParticleMesh", 0))]
    /\ pc' = [pc EXCEPT ![r] = "in_mesh"]
    /\ UNCHANGED <<inputs, locals, storage, thrown>>

\* line 54 returns: pm is bound
MeshDone(r) ==
    /\ pc[r] = "in_mesh"
    /\ CollectiveReady(r)
    /\ pm' = [pm EXCEPT ![r] = Some(ParticleMesh(BoxSize, Nmesh))]
    /\ pc' = [pc EXCEPT ![r] = "measure"]
    /\ UNCHANGED <<inputs, fields, meta, kedges, poles_final, result, ret, loop,
                   log, storage, colls, thrown, trace>>

\* line 57: enter compute_bianchi_poles(...)
Measure(r) ==
    /\ pc[r] = "measure"
    /\ colls' = [colls EXCEPT ![r] = Append(@, "compute_bianchi_poles")]
    /\ trace' = [trace EXCEPT ![r] = Append(@, Step("compute_bianchi_poles", 0))]
    /\ pc' = [pc EXCEPT ![r] = "in_estimator"]
    /\ UNCHANGED <<inputs, locals, log, storage, thrown>>

\* line 57 returns: poles, meta are bound
MeasureDone(r) ==
    /\ pc[r] = "in_estimator"
    /\ CollectiveReady(r)
    /\ LET out == compute_bianchi_poles(est_poles, est_meta, Get(pm[r]))
       IN  /\ fields' = [fields EXCEPT ![r] = out[1]]
           /\ meta' = [meta EXCEPT ![r] = out[2]]
    /\ pc' = [pc EXCEPT ![r] = "binning"]
    /\ UNCHANGED <<inputs, pm, kedges, poles_final, result, ret, loop,
                   log, storage, colls, thrown, trace>>

\* lines 62-68: the k-bin edges; numpy.arange raises on a step of zero
DeriveEdges(r) ==
    /\ pc[r] = "binning"
    /\ IF BinWidth(dk, Get(pm[r])) = 0
       THEN /\ thrown' = [thrown EXCEPT ![r] = "arange"]
            /\ OnException(r, "arange")
       ELSE /\ kedges' = [kedges EXCEPT ![r] = KEdges(dk, kmin, Get(pm[r]))]
            /\ loop' = [loop EXCEPT ![r] = 1]
            /\ trace' = [trace EXCEPT ![r] = Append(@, Step("kedges", 0))]
            /\ pc' = [pc EXCEPT ![r] = "project"]
            /\ UNCHANGED <<pm, fields, meta, poles_final, result, ret,
                           log, storage, colls, thrown>>
    /\ UNCHANGED inputs

\* line 72: enter project_to_basis(...) for the field the loop is at
Project(r) ==
    /\ pc[r] = "project"
    /\ loop[r] <= Len(LoopFields(r))
    /\ colls' = [colls EXCEPT ![r] = Append(@, "project_to_basis")]
    /\ trace' = [trace EXCEPT ![r] = Append(@, Step("project_to_basis", loop[r]))]
    /\ pc' = [pc EXCEPT ![r] = "in_project"]
    /\ UNCHANGED <<inputs, locals, log, storage, thrown>>

\* lines 72-73: result is bound, its power is appended, the loop goes on
ProjectDone(r) ==
    /\ pc[r] = "in_project"
    /\ CollectiveReady(r)
    /\ LET out == project_to_basis(LoopFields(r)[loop[r]], kedges[r])
       IN  /\ result' = [result EXCEPT ![r] = Some(out)]
           /\ poles_final' = [poles_final EXCEPT ![r] = Append(@, squeeze(out[3]))]
    /\ loop' = [loop EXCEPT ![r] = NextField(@)]
    /\ pc' = [pc EXCEPT ![r] = "project"]
    /\ UNCHANGED <<inputs, pm, fields, meta, kedges, ret, log, storage, colls,
                   thrown, trace>>

\* lines 76-86: stack (numpy.stack raises on an empty list), k and modes of
\* the last projection, the metadata, the return
Assemble(r) ==
    /\ pc[r] = "project"
    /\ loop[r] > Len(LoopFields(r))
    /\ IF poles_final[r] = <<>>
       THEN /\ thrown' = [thrown EXCEPT ![r] = "stack"]
            /\ OnException(r, "stack")
       ELSE LET last == Get(result[r])
                tuple == <<squeeze(last[1]), stack(poles_final[r]), squeeze(last[4])>>
                m == MetaUpdate(meta[r], Get(pm[r]))
            IN  /\ poles_final' = [poles_final EXCEPT ![r] = stack(@)]
                /\ result' = [result EXCEPT ![r] = Some(tuple)]
                /\ meta' = [meta EXCEPT ![r] = m]
                /\ ret' = [ret EXCEPT ![r] = Some(<<kedges[r], tuple, m>>)]
                /\ trace' = [trace EXCEPT ![r] = Append(@, Step("return", 0))]
                /\ pc' = [pc EXCEPT ![r] = "returned"]
                /\ UNCHANGED <<pm, fields, kedges, loop, log, storage, colls, thrown>>
    /\ UNCHANGED inputs

\* a collaborator's call raises on rank r
Raise(r) ==
    /\ pc[r] \in {"in_mesh", "in_estimator", "in_project"}
    /\ thrown' = [thrown EXCEPT ![r] = colls[r][Len(colls[r])]]
    /\ OnException(r, colls[r][Len(colls[r])])
    /\ UNCHANGED inputs

\* ---------------------------------------------------------- save()
\* lines 103-114, called with what run() returned
Save(r) ==
    /\ pc[r] = "returned"
    /\ IF IsMaster(r)
       THEN LET edges == Get(ret[r])[1]
                k == Get(ret[r])[2][1]
                rows == Get(ret[r])[2][2]
                N == Get(ret[r])[2][3]
                m == Get(ret[r])[3]
            IN  /\ log' = [log EXCEPT ![r] =
                             IF InfoEnabled(log_level)
                             THEN Append(@, "measurement done; saving result") ELSE @]
                /\ storage' = Append(storage,
                       [rank |-> r, format |-> "1d", kedges |-> edges, cols |-> SaveCols,
                        data |-> PoleResult(k, rows, N), meta |-> m])
                /\ trace' = [trace EXCEPT ![r] = Append(@, Step("write", 0))]
       ELSE UNCHANGED <<log, storage, trace>>
    /\ pc' = [pc EXCEPT ![r] = "done"]
    /\ UNCHANGED <<inputs, locals, colls, thrown>>

\* ---------------------------------------------------------- Next
Next ==
    \/ \E r \in Ranks : RunBegin(r)
    \/ \E r \in Ranks : MeshDone(r)
    \/ \E r \in Ranks : Measure(r)
    \/ \E r \in Ranks : MeasureDone(r)
    \/ \E r \in Ranks : DeriveEdges(r)
    \/ \E r \in Ranks : Project(r)
    \/ \E r \in Ranks : ProjectDone(r)
    \/ \E r \in Ranks : Assemble(r)
    \/ \E r \in Ranks : Save(r)
    \/ \E r \in Ranks : Raise(r)

\* the steps a rank takes by itself once it is scheduled: all but a
\* collaborator raising
Work ==
    \E r \in Ranks :
        \/ RunBegin(r)
        \/ MeshDone(r)
        \/ Measure(r)
        \/ MeasureDone(r)
        \/ DeriveEdges(r)
        \/ Project(r)
        \/ ProjectDone(r)
        \/ Assemble(r)
        \/ Save(r)

\* ------------------------------------------------------- the inputs
SeqsUpTo(S, n) == UNION {[1..m -> S] : m \in 1..n}

\* tokens for `poles`: orders of [0, 2, 4], an order outside it, a non-number
PoleTokens == {"0", "2", "4", "1", "x"}

\* the estimator returns the first n even multipoles of the catalog
EvenPoles(n) == [i \in 1..n |-> 2 * (i - 1)]

Cubic == <<1000, 1000, 1000>>
Slab == <<1000, 800, 1200>>

\* metadata of the estimator: with and without the keys run() adds
PlainMeta == [key \in {"N_data"} |-> 7]
ClashMeta == [key \in {"N_data", "Lx", "volume"} |-> 1]

\* any number of ranks and of fields; the bin width unset or zero
Init ==
    InitWith(1..MaxRanks, {Cubic}, {2}, {None, Some(0)}, {0},
             {<<"0", "2", "4">>}, {"DEBUG", "ERROR"},
             {EvenPoles(n) : n \in 0..MaxFields}, {PlainMeta})

Spec == Init /\ [][Next]_vars

\* the ranks are scheduled as long as they can go on; no collaborator has to
\* raise
FairSpec == Spec /\ WF_vars(Work)

\* two ranks; any tokens for `poles`, any number of fields
ArgInit ==
    InitWith({2}, {Cubic}, {2}, {None}, {0},
             SeqsUpTo(PoleTokens, MaxPoles), {"DEBUG"},
             {EvenPoles(n) : n \in 0..MaxFields}, {PlainMeta})

ArgSpec == ArgInit /\ [][Next]_vars

\* two ranks; any box of BoxLengths, mesh sizes up to MaxNmesh and 32, bin
\* widths unset, zero, negative and positive, first edges below and beyond
\* the Nyquist limit
NumInit ==
    InitWith({2}, [1..3 -> BoxLengths], (1..MaxNmesh) \cup {32},
             {None, Some(0), Some(-20), Some(40), Some(100)}, {0, 10, 2000},
             {<<"0", "2", "4">>}, {"DEBUG"},
             {EvenPoles(1)}, {PlainMeta, ClashMeta})

NumSpec == NumInit /\ [][Next]_vars

\* ------------------------------------------------------- the claims
\* rank r has derived its k-bin edges
EdgesDerived(r) == \E i \in 1..Len(trace[r]) : trace[r][i].step = "kedges"

StrictlyIncreasing(e) == \A i \in 1..(Len(e) - 1) : e[i] < e[i + 1]

\* C3: for Nmesh >= 1, positive BoxSize, dk positive or unset and kmin >= 0,
\* the k-bin edges run() derives are a non-empty strictly increasing sequence
\* that starts at kmin and whose last element is at or above the Nyquist limit
\* pi*Nmesh/max(BoxSize).
C3_EdgesReachNyquist ==
    \A r \in Ranks :
        (/\ EdgesDerived(r)
         /\ Nmesh >= 1
         /\ \A a \in 1..3 : BoxSize[a] > 0
         /\ (dk = None \/ Get(dk) > 0)
         /\ kmin >= 0)
        => /\ Len(kedges[r]) >= 1
           /\ StrictlyIncreasing(kedges[r])
           /\ kedges[r][1] = kmin
           /\ kedges[r][Len(kedges[r])] >= Nyquist(Nmesh, BoxSize)

\* C7: the metadata run() returns holds Lx, Ly, Lz equal to the mesh's box
\* edge lengths and volume equal to Lx*Ly*Lz (960,000,000 for
\* [1000, 800, 1200]), whatever the estimator's metadata held.
C7_VolumeMetadata ==
    \A r \in Ranks :
        ret[r] # None =>
            LET m == Get(ret[r])[3]
                B == Get(pm[r]).BoxSize
            IN  /\ B = BoxSize
                /\ m["Lx"] = BoxSize[1]
                /\ m["Ly"] = BoxSize[2]
                /\ m["Lz"] = BoxSize[3]
                /\ m["volume"] = BoxSize[1] * BoxSize[2] * BoxSize[3]
                /\ (BoxSize = <<1000, 800, 1200>> => m["volume"] = 960000000)

\* C7 happens: run() has returned for the box [1000, 800, 1200] where the
\* estimator's metadata already held 'volume' and 'Lx'
C7_Witness ==
    \E r \in Ranks :
        /\ ret[r] # None
        /\ BoxSize = <<1000, 800, 1200>>
        /\ {"volume", "Lx"} \subseteq DOMAIN est_meta

\* C8: the bin width is 2*pi/min(BoxSize) when dk is unset and the given
\* (positive) value otherwise; consecutive edges differ by exactly that width;
\* no edge lies at or beyond Nyquist + dk/2; and the edges run from kmin to
\* the Nyquist limit inclusive: the Nyquist limit lies within the binned
\* range whenever kmin does not exceed it.
C8_EdgesRunToNyquist ==
    \A r \in Ranks :
        (EdgesDerived(r) /\ (dk = None \/ Get(dk) > 0)) =>
            LET width == IF dk = None THEN (2 * KDen) \div BoxMin(BoxSize) ELSE Get(dk)
                nyq == (Nmesh * KDen) \div BoxMax(BoxSize)
                e == kedges[r]
            IN  /\ \A i \in 1..(Len(e) - 1) : e[i + 1] - e[i] = width
                /\ \A i \in 1..Len(e) : 2 * e[i] < 2 * nyq + width
                /\ kmin <= nyq =>
                       /\ Len(e) >= 1
                       /\ e[1] = kmin
                       /\ e[Len(e)] >= nyq

\* C2: the stacked power array run() returns has as many rows as `poles`
\* requests orders, and row i is the projected power of the i-th requested
\* order.
C2_RowsFollowRequestedPoles ==
    \A r \in Ranks :
        ret[r] # None =>
            LET rows == Get(ret[r])[2][2]
                requested == Get(poles)
            IN  /\ Len(rows) = Len(requested)
                /\ \A i \in 1..Len(rows) :
                       rows[i].name = "power" /\ rows[i].of = Some(requested[i])

\* the write of rank 0, once made
Written == storage # <<>>

\* C4: the column names given to the storage writer are exactly
\* k, power_0, power_2, power_4, modes, in that order, for every `poles` list;
\* lists of integers outside {0, 2, 4}, subsets and reorderings are accepted
\* without a validation error; the data columns are k, then the rows of the
\* stacked power array in their stored order, then the mode counts.
C4_FixedColumnNames ==
    /\ (\A i \in 1..Len(rawpoles) : rawpoles[i] \in {"0", "1", "2", "4"})
           => /\ poles # None
              /\ \A r \in Ranks : pc[r] # "argerror"
    /\ \A w \in 1..Len(storage) :
           LET tuple == Get(ret[storage[w].rank])[2]
           IN  /\ storage[w].cols = <<"k", "power_0", "power_2", "power_4", "modes">>
               /\ storage[w].data = <<tuple[1]>> \o poles_final[storage[w].rank] \o <<tuple[3]>>
               /\ tuple[1].name = "k"
               /\ tuple[3].name = "modes"
               /\ \A i \in 1..Len(est_poles) :
                      storage[w].data[i + 1] = [name |-> "power", of |-> Some(est_poles[i]),
                                                shape |-> tuple[1].shape]

\* C4 happens: rank 0 has written for a `poles` list with an order outside
\* {0, 2, 4}
C4_Witness ==
    /\ Written
    /\ poles # None
    /\ \E i \in 1..Len(Get(poles)) : Get(poles)[i] \notin {0, 2, 4}

\* C10: in the write of rank 0 there are always 5 column names and
\* 2 + (rows of the stacked power array) data columns; the two counts agree
\* exactly when the result holds three multipole fields; with any other
\* number of fields the writer is invoked all the same and save() raises
\* nothing.
C10_NamesMatchDataIffThreeFields ==
    /\ \A w \in 1..Len(storage) :
           LET rows == Get(ret[storage[w].rank])[2][2]
           IN  /\ Len(storage[w].cols) = 5
               /\ Len(storage[w].data) = 2 + Len(rows)
               /\ Len(rows) = Len(est_poles)
               /\ (Len(storage[w].cols) = Len(storage[w].data)) <=> (Len(est_poles) = 3)
    /\ \A r \in Ranks :
           (pc[r] = "done" /\ r = 0) => (Len(storage) = 1 /\ thrown[r] = "None")

\* C10 happens: rank 0 has finished save() with a result of other than three
\* fields, the name and data lists of its write differing in length
C10_Witness ==
    /\ pc[0] = "done"
    /\ Len(est_poles) # 3
    /\ Len(storage) = 1
    /\ Len(storage[1].cols) # Len(storage[1].data)

AllDone == \A r \in Ranks : pc[r] = "done"

SomeThrown == \E r \in Ranks : thrown[r] # "None"

\* C1: whatever the number of ranks, the storage writer is created and its
\* write invoked at most once, by rank 0 alone, and exactly once when every
\* rank has gone through run() and save(); on a rank other than 0 save()
\* touches neither the storage writer, nor the logger, nor the result.
C1_OnlyRankZeroWrites ==
    /\ [](/\ Len(storage) <= 1
          /\ \A w \in 1..Len(storage) : storage[w].rank = 0 /\ storage[w].format = "1d"
          /\ AllDone => Len(storage) = 1
          /\ \A r \in Ranks : r # 0 => log[r] = <<>>)
    /\ [][\A r \in Ranks :
              (r # 0 /\ pc[r] = "returned" /\ pc'[r] = "done")
                  => /\ storage' = storage
                     /\ log' = log
                     /\ ret' = ret
                     /\ result' = result
                     /\ poles_final' = poles_final]_vars

\* C1 happens: several ranks have all finished save() and one write was made
C1_Witness == comm_size >= 2 /\ AllDone /\ Len(storage) = 1

\* the steps a rank takes, in order, for the fields the estimator returned
RunSteps ==
    <<Step("ParticleMesh", 0), Step("compute_bianchi_poles", 0), Step("kedges", 0)>>
        \o [i \in 1..Len(est_poles) |-> Step("project_to_basis", i)]
        \o <<Step("return", 0)>>

\* C5: when mesh construction, the estimator or a projection raises in run(),
\* the exception leaves run() as it is: run() stops at the call that raised,
\* takes no later step, retries nothing and returns no result, and the rank
\* writes nothing.
C5_FailurePropagates ==
    /\ [](\A r \in Ranks :
              thrown[r] # "None" =>
                  /\ pc[r] = "raised"
                  /\ ret[r] = None
                  /\ \A w \in 1..Len(storage) : storage[w].rank # r
                  /\ thrown[r] \in {"ParticleMesh", "compute_bianchi_poles", "project_to_basis"}
                         => /\ trace[r][Len(trace[r])].step = thrown[r]
                            /\ colls[r][Len(colls[r])] = thrown[r])
    /\ [][\A r \in Ranks :
              thrown[r] # "None" =>
                  /\ pc'[r] = pc[r]
                  /\ thrown'[r] = thrown[r]
                  /\ trace'[r] = trace[r]
                  /\ colls'[r] = colls[r]
                  /\ ret'[r] = ret[r]
                  /\ poles_final'[r] = poles_final[r]
                  /\ log'[r] = log[r]]_vars

\* C5 happens: the second projection has raised on rank 0 while another rank
\* went on
C5_Witness ==
    /\ comm_size >= 2
    /\ thrown[0] = "project_to_basis"
    /\ Len(poles_final[0]) = 1
    /\ pc[1] = "in_project"

\* C9: on every rank the steps come in the order mesh construction, one
\* estimator invocation, k-bin edges, one projection per field of the
\* estimator in the estimator's order, return; rank 0 writes only after run()
\* has returned a complete result, all projections done.
C9_StepOrder ==
    /\ \A r \in Ranks :
           /\ IsPrefix(trace[r], RunSteps \o (IF r = 0 THEN <<Step("write", 0)>> ELSE <<>>))
           /\ ret[r] # None =>
                  /\ IsPrefix(RunSteps, trace[r])
                  /\ Len(poles_final[r]) = Len(est_poles)
                  /\ \A i \in 1..Len(est_poles) :
                         /\ poles_final[r][i].of = Some(est_poles[i])
                         /\ poles_final[r][i].shape = squeeze(project_to_basis(0, kedges[r])[3]).shape
                  /\ Get(ret[r])[1] = kedges[r]
                  /\ Get(ret[r])[2][2] = poles_final[r]
    /\ Written =>
           /\ ret[0] # None
           /\ loop[0] > Len(est_poles)
           /\ storage[1].kedges = kedges[0]

\* C9 happens: rank 0 has written a result of several fields
C9_Witness == Written /\ Len(est_poles) >= 2 /\ pc[0] = "done"

\* the collective calls of run(), the same on every rank
RunCollectives ==
    <<"ParticleMesh", "compute_bianchi_poles">>
        \o [i \in 1..Len(est_poles) |-> "project_to_basis"]

\* C6: every rank enters the same sequence of collective calls (mesh
\* construction, one estimator invocation, one projection per field),
\* whatever its rank; no rank waits in a collective that another rank has
\* skipped; and unless a call raises, every rank in the end finishes save().
C6_SameCollectivesAndTermination ==
    /\ [](\A r \in Ranks :
              /\ IsPrefix(colls[r], RunCollectives)
              /\ pc[r] \in {"returned", "done"} => colls[r] = RunCollectives
              /\ pc[r] \in {"in_mesh", "in_estimator", "in_project"} =>
                     \A q \in Ranks :
                         Len(colls[q]) < Len(colls[r]) =>
                             pc[q] \notin {"returned", "done"})
    /\ <>(AllDone \/ SomeThrown)

\* C6 happens: several ranks have all finished save() after projecting
\* several fields
C6_Witness == comm_size >= 2 /\ Len(est_poles) >= 2 /\ AllDone

=============================================================================
